---------------------------- MODULE Spec2Model ----------------------------
(***************************************************************************)
(* kybnmr: the conformer de-duplication pass ("Double Check") of           *)
(* calc/calculate.go.                                                      *)
(*                                                                         *)
(* Numbers.  Go's float64 values are modelled in fixed point:              *)
(*   - coordinates are integers (Angstrom);                                *)
(*   - a distance is an integer count of 1/Scale Angstrom, math.Sqrt       *)
(*     being the square root rounded down to that grid;                    *)
(*   - an Energy is an integer (Hartree);                                  *)
(*   - an energy difference in kcal/mol and the energy threshold are       *)
(*     integer counts of 1/10000 kcal/mol, so that the factor 627.5094 is  *)
(*     the integer 6275094 and no digit of it is lost;                     *)
(*   - the distance threshold is an integer count of 1/Scale Angstrom.     *)
(* A nil ClusterList is the empty sequence (len(nil) = 0 in Go); a         *)
(* successful DoubleCheck never returns an empty list.                     *)
(***************************************************************************)
EXTENDS Integers, Sequences, FiniteSets, TLC

(***************************************************************************)
(* Bounds of the model.                                                    *)
(***************************************************************************)
MaxLen == 4          \* longest input ensemble
MaxEnergy == 2       \* energies are 0..MaxEnergy
Scale == 10          \* distance grid: 1/Scale Angstrom
MaxCoord == 2        \* coordinates are 0..MaxCoord
MaxWriteLen == 2     \* longest list written to a structure file
MaxLines == 6        \* longest structure file, in lines
MaxFewLen == 3       \* longest ensemble with structures of 0 or 1 atoms
MaxReportLen == 2    \* PrintClusterInFo on its own: longest list
MaxReportEnergy == 9 \* and its energies, 0..MaxReportEnergy

(***************************************************************************)
(* Program constants.                                                      *)
(***************************************************************************)
HartreeToKcal == 6275094     \* 627.5094 in units of 1/10000
RelativeEnergyFactor == 6275100   \* line 71: 627.51 in the same units

ErrThreshold == "threshold values must be non-negative"
ErrEmpty == "empty cluster list"
ErrPanic == "panic: index out of range"
NoErr == "nil"
Nil == << >>
\* config.go, ParseXyzFile
ErrHeader == "invalid atomic number rows"
ErrRow == "invalid atomic rows"
ErrSyntax == "strconv.ParseFloat: invalid syntax"

(***************************************************************************)
(* Inputs: atoms on a small integer grid, geometries of three atoms and    *)
(* one geometry of four atoms (an ensemble that mixes them is the          *)
(* heterogeneous ensemble of an upstream data error).                      *)
(***************************************************************************)
Atom(s, x, y, z) == [Symbol |-> s, X |-> x, Y |-> y, Z |-> z]

GeomP == << Atom("C", 0, 0, 0), Atom("H", 1, 0, 0), Atom("H", 0, 1, 0) >>
GeomQ == << Atom("C", 0, 0, 0), Atom("H", 1, 0, 0), Atom("H", 2, 0, 0) >>
GeomR == << Atom("C", 0, 0, 0), Atom("H", 1, 0, 0), Atom("H", 2, 1, 0) >>
Geom4 == << Atom("C", 0, 0, 0), Atom("H", 1, 0, 0), Atom("H", 0, 1, 0),
            Atom("H", 1, 1, 0) >>

Geoms3 == {GeomP, GeomQ, GeomR}
Geoms == Geoms3 \cup {Geom4}
Energies == 0..MaxEnergy

\* one geometry at every energy, the other geometries at the lowest energy
Pool == [Atoms : {GeomQ}, Energy : Energies] \cup [Atoms : Geoms, Energy : {0}]

\* thresholds of the first call: 627.5094 kcal/mol is exactly one energy
\* unit; 0.5 and 0.6 Angstrom at Scale = 10 (0.6 Angstrom is exactly the
\* largest difference between the distance arrays of GeomP and GeomQ)
EneThresholds == {-1, HartreeToKcal}
DisThresholds == {-1, 5, 6}
\* energy thresholds of a second, looser call
LooserEneThresholds == {HartreeToKcal, 2 * HartreeToKcal}

Ensembles == UNION {[1..n -> Pool] : n \in 0..MaxLen}

Abs(x) == IF x < 0 THEN -x ELSE x

(***************************************************************************)
(* math.Sqrt on the distance grid.                                         *)
(***************************************************************************)
MaxDist2 == 3 * MaxCoord * MaxCoord
ISqrt(n) == CHOOSE r \in 0..n : r * r <= n /\ (r + 1) * (r + 1) > n
SqrtTable == [s \in 0..MaxDist2 |-> ISqrt(s * Scale * Scale)]
Sqrt(s) == SqrtTable[s]

(***************************************************************************)
(* calculateDistanceMatrix: an n x n matrix, 0 on the diagonal.            *)
(***************************************************************************)
calculateDistanceMatrix(cluster) ==
  LET numAtoms == Len(cluster.Atoms)
      a == cluster.Atoms
  IN [i \in 1..numAtoms |->
        [j \in 1..numAtoms |->
           IF i = j THEN 0
           ELSE LET diffX == a[i].X - a[j].X
                    diffY == a[i].Y - a[j].Y
                    diffZ == a[i].Z - a[j].Z
                IN Sqrt(diffX * diffX + diffY * diffY + diffZ * diffZ)]]

(***************************************************************************)
(* convertToDistanceArray: the entries above the diagonal, row by row.     *)
(***************************************************************************)
RECURSIVE UpperRows(_, _)
UpperRows(distMatrix, i) ==
  LET numAtoms == Len(distMatrix)
  IN IF i > numAtoms THEN << >>
     ELSE [j \in 1..(numAtoms - i) |-> distMatrix[i][i + j]]
          \o UpperRows(distMatrix, i + 1)

convertToDistanceArray(distMatrix) == UpperRows(distMatrix, 1)

(***************************************************************************)
(* sort.Float64s: ascending sort of a sequence of numbers.                 *)
(***************************************************************************)
RECURSIVE InsertFloat(_, _)
InsertFloat(sorted, x) ==
  IF sorted = << >> THEN << x >>
  ELSE IF x < Head(sorted) THEN << x >> \o sorted
       ELSE << Head(sorted) >> \o InsertFloat(Tail(sorted), x)

\* variant: the array is left in the order of the pair enumeration
SortFloat64sNone(arr) == arr

RECURSIVE SortFloat64s(_)
SortFloat64s(arr) ==
  IF arr = << >> THEN << >>
  ELSE InsertFloat(SortFloat64s(SubSeq(arr, 1, Len(arr) - 1)), arr[Len(arr)])

\* lines 160-169: the sorted distance array of one structure
SortedDistArray(cluster) ==
  SortFloat64s(convertToDistanceArray(calculateDistanceMatrix(cluster)))

\* the same array, computed once per geometry of the inputs
DistTable ==
  [g \in Geoms |-> SortedDistArray([Atoms |-> g, Energy |-> 0])]
DistArray(cluster) ==
  IF cluster.Atoms \in Geoms THEN DistTable[cluster.Atoms]
  ELSE SortedDistArray(cluster)

(***************************************************************************)
(* IsSimilarToCluster.                                                     *)
(***************************************************************************)
\* variant: the signed difference, without math.Abs
EneDiffSigned(cluster1, cluster2) ==
  (cluster1.Energy - cluster2.Energy) * HartreeToKcal

\* line 152
EneDiff(cluster1, cluster2) ==
  Abs(cluster1.Energy - cluster2.Energy) * HartreeToKcal

\* variant: the energy test rejects the pairs below the threshold
EnergyRejectsFlipped(cluster1, cluster2, eneThreshold) ==
  EneDiff(cluster1, cluster2) < eneThreshold

\* variant: a difference equal to the threshold rejects as well
EnergyRejectsOrEqual(cluster1, cluster2, eneThreshold) ==
  EneDiff(cluster1, cluster2) >= eneThreshold

\* line 155
EnergyRejects(cluster1, cluster2, eneThreshold) ==
  EneDiff(cluster1, cluster2) > eneThreshold

RECURSIVE MaxDiffLoop(_, _, _, _)
MaxDiffLoop(distArray1, distArray2, i, maxDiff) ==
  IF i > Len(distArray1) THEN maxDiff
  ELSE LET diff == Abs(distArray1[i] - distArray2[i])
       IN MaxDiffLoop(distArray1, distArray2, i + 1,
                      IF diff > maxDiff THEN diff ELSE maxDiff)

\* the loop reads distArray2[i] for every i < len(distArray1): a run-time
\* panic when the second array is the shorter one
SimilarPanics(cluster1, cluster2, eneThreshold, disThreshold) ==
  /\ ~EnergyRejects(cluster1, cluster2, eneThreshold)
  /\ Len(DistArray(cluster1)) > Len(DistArray(cluster2))

\* variant: a largest difference equal to the threshold rejects the pair
IsSimilarToClusterStrict(cluster1, cluster2, eneThreshold, disThreshold) ==
  IF EnergyRejects(cluster1, cluster2, eneThreshold) THEN FALSE
  ELSE LET maxDiff == MaxDiffLoop(DistArray(cluster1), DistArray(cluster2), 1, 0)
       IN IF maxDiff >= disThreshold THEN FALSE ELSE TRUE

IsSimilarToCluster(cluster1, cluster2, eneThreshold, disThreshold) ==
  IF EnergyRejects(cluster1, cluster2, eneThreshold) THEN FALSE
  ELSE LET maxDiff == MaxDiffLoop(DistArray(cluster1), DistArray(cluster2), 1, 0)
       IN IF maxDiff > disThreshold THEN FALSE ELSE TRUE

(***************************************************************************)
(* ClusterList.SortCluster: sort.SliceStable with the less function        *)
(* cl[i].Energy < cl[j].Energy.  SortPerm is the permutation the stable    *)
(* sort applies (positions of cl in their sorted order).                   *)
(***************************************************************************)
\* variants: descending order; a non-strict less function
LessDescending(a, b) == a.Energy > b.Energy
LessOrEqual(a, b) == a.Energy <= b.Energy

Less(a, b) == a.Energy < b.Energy

RECURSIVE InsertStable(_, _, _)
InsertStable(cl, perm, x) ==
  IF perm = << >> THEN << x >>
  ELSE IF Less(cl[x], cl[Head(perm)]) THEN << x >> \o perm
       ELSE << Head(perm) >> \o InsertStable(cl, Tail(perm), x)

RECURSIVE SortPerm(_, _)
SortPerm(cl, n) ==
  IF n = 0 THEN << >> ELSE InsertStable(cl, SortPerm(cl, n - 1), n)

Permute(seq, perm) == [i \in 1..Len(perm) |-> seq[perm[i]]]

SortCluster(cl) == Permute(cl, SortPerm(cl, Len(cl)))

(***************************************************************************)
(* ClusterList.PrintClusterInFo: the rows printed for the sorted list, each *)
(* with the Energy, the relative energy computed at line 71 and the text   *)
(* "%.2f" prints for it (hundredths of a kcal/mol, rounded to nearest).    *)
(***************************************************************************)
Format2(x) == (x + 50) \div 100

PrintClusterInFo(cl) ==
  LET sorted == SortCluster(cl)
      minEnergy == sorted[1].Energy
  IN [i \in 1..Len(sorted) |->
        LET relativeEnergy == (sorted[i].Energy - minEnergy)
                                * RelativeEnergyFactor
        IN [Energy |-> sorted[i].Energy,
            relativeEnergy |-> relativeEnergy,
            DeltaEnergy |-> Format2(relativeEnergy)]]

(***************************************************************************)
(* DoubleCheck, the body of the loop over clusters[1:]: the scan of        *)
(* resultClusters for one candidate.  ScanReps is the inner loop; it       *)
(* yields the slot of the first similar representative (0: none), the      *)
(* number of IsSimilarToCluster calls made, and whether a call panicked.   *)
(***************************************************************************)
\* variant: the inner loop stops one representative early
RECURSIVE ScanRepsSkipLast(_, _, _, _, _)
ScanRepsSkipLast(reps, cluster, eneThreshold, disThreshold, i) ==
  IF i >= Len(reps) THEN [match |-> 0, ncmp |-> i - 1, panic |-> FALSE]
  ELSE IF SimilarPanics(cluster, reps[i], eneThreshold, disThreshold)
       THEN [match |-> 0, ncmp |-> i, panic |-> TRUE]
       ELSE IF IsSimilarToCluster(cluster, reps[i], eneThreshold, disThreshold)
            THEN [match |-> i, ncmp |-> i, panic |-> FALSE]
            ELSE ScanRepsSkipLast(reps, cluster, eneThreshold, disThreshold,
                                  i + 1)

\* variant: no break, the last similar representative wins
RECURSIVE ScanRepsLast(_, _, _, _, _)
ScanRepsLast(reps, cluster, eneThreshold, disThreshold, i) ==
  IF i > Len(reps) THEN [match |-> 0, ncmp |-> i - 1, panic |-> FALSE]
  ELSE IF SimilarPanics(cluster, reps[i], eneThreshold, disThreshold)
       THEN [match |-> 0, ncmp |-> i, panic |-> TRUE]
       ELSE LET rest == ScanRepsLast(reps, cluster, eneThreshold,
                                     disThreshold, i + 1)
            IN IF IsSimilarToCluster(cluster, reps[i], eneThreshold,
                                     disThreshold)
                  /\ ~rest.panic /\ rest.match = 0
               THEN [match |-> i, ncmp |-> rest.ncmp, panic |-> FALSE]
               ELSE rest

RECURSIVE ScanReps(_, _, _, _, _)
ScanReps(reps, cluster, eneThreshold, disThreshold, i) ==
  IF i > Len(reps) THEN [match |-> 0, ncmp |-> i - 1, panic |-> FALSE]
  ELSE IF SimilarPanics(cluster, reps[i], eneThreshold, disThreshold)
       THEN [match |-> 0, ncmp |-> i, panic |-> TRUE]
       ELSE IF IsSimilarToCluster(cluster, reps[i], eneThreshold, disThreshold)
            THEN [match |-> i, ncmp |-> i, panic |-> FALSE]
            ELSE ScanReps(reps, cluster, eneThreshold, disThreshold, i + 1)

\* variant: the comparison of line 124 is turned round
ReplacesIfHigher(cluster, resultCluster) ==
  cluster.Energy > resultCluster.Energy

\* variant: a candidate of equal Energy takes the slot too
ReplacesOrEqual(cluster, resultCluster) ==
  cluster.Energy <= resultCluster.Energy

\* line 124: the candidate takes the slot
Replaces(cluster, resultCluster) == cluster.Energy < resultCluster.Energy

\* variant: the new representative is put in front
AddClusterFront(reps, cluster) == << cluster >> \o reps

\* line 133: a candidate similar to no representative
AddCluster(reps, cluster) == Append(reps, cluster)

\* variant: a match appends the atoms of the candidate to the
\* representative, as the earlier DoubleCheck of the file does (line 516)
MergeCandidateAppendAtoms(reps, cluster, eneThreshold, disThreshold) ==
  LET s == ScanReps(reps, cluster, eneThreshold, disThreshold, 1)
  IN [match |-> s.match, ncmp |-> s.ncmp, panic |-> s.panic,
      replaced |-> FALSE,
      reps |-> IF s.panic THEN reps
               ELSE IF s.match > 0
                    THEN [reps EXCEPT ![s.match].Atoms = @ \o cluster.Atoms]
                    ELSE AddCluster(reps, cluster)]

MergeCandidate(reps, cluster, eneThreshold, disThreshold) ==
  LET s == ScanReps(reps, cluster, eneThreshold, disThreshold, 1)
  IN [match |-> s.match, ncmp |-> s.ncmp, panic |-> s.panic,
      replaced |-> s.match > 0 /\ Replaces(cluster, reps[s.match]),
      reps |-> IF s.panic THEN reps
               ELSE IF s.match > 0
                    THEN IF Replaces(cluster, reps[s.match])
                         THEN [reps EXCEPT ![s.match] = cluster]
                         ELSE reps
                    ELSE AddCluster(reps, cluster)]

\* variant: rejected only when both thresholds are negative
InvalidThresholdBoth(eneThreshold, disThreshold) ==
  eneThreshold < 0 /\ disThreshold < 0

InvalidThreshold(eneThreshold, disThreshold) ==
  eneThreshold < 0 \/ disThreshold < 0

\* variant: the length test can never succeed
EmptyEnsembleNever(cl) == Len(cl) < 0

EmptyEnsemble(cl) == Len(cl) = 0

(***************************************************************************)
(* DoubleCheck as a function of its arguments: the returned list and       *)
(* error.                                                                  *)
(***************************************************************************)
RECURSIVE ScanAll(_, _, _, _, _)
ScanAll(reps, cl, i, eneThreshold, disThreshold) ==
  IF i > Len(cl) THEN [list |-> SortCluster(reps), err |-> NoErr]
  ELSE LET m == MergeCandidate(reps, cl[i], eneThreshold, disThreshold)
       IN IF m.panic THEN [list |-> Nil, err |-> ErrPanic]
          ELSE ScanAll(m.reps, cl, i + 1, eneThreshold, disThreshold)

DoubleCheck(eneThreshold, disThreshold, cl) ==
  IF InvalidThreshold(eneThreshold, disThreshold)
  THEN [list |-> Nil, err |-> ErrThreshold]
  ELSE IF EmptyEnsemble(cl) THEN [list |-> Nil, err |-> ErrEmpty]
       ELSE IF Len(cl) = 0 THEN [list |-> Nil, err |-> ErrPanic]
            ELSE ScanAll(<< cl[1] >>, cl, 2, eneThreshold, disThreshold)

(***************************************************************************)
(* State.                                                                  *)
(*   clusters, eneThreshold, disThreshold  the arguments of the call       *)
(*   pc              "call" | "scan" | "ret" (returned or panicked)        *)
(*   resultClusters  the representative list of the running call           *)
(*   k               position in clusters of the next candidate            *)
(*   out, err        the returned list and error                           *)
(* History variables (observation only):                                   *)
(*   origin     for each slot, the input position of the structure in it   *)
(*   prev       resultClusters before the last candidate was handled       *)
(*   merged     slot the last candidate matched (0: none, or no candidate) *)
(*   nCompare   number of IsSimilarToCluster calls made so far             *)
(*   nReplaced  number of slot overwrites made so far                      *)
(*   slotOf     after the final sort: for each position of the returned    *)
(*              list, the slot it held at the end of the scan              *)
(*   members    for each slot, the input positions merged into it so far   *)
(*              (its holder, the discarded and the displaced ones)         *)
(* A second call made by the caller on the result of the first:            *)
(*   mode       "none" | "again" (same thresholds, on out)                 *)
(*              | "looser" (on clusters, thresholds ene2 >= , dis2 >=)     *)
(*   ene2, dis2, out2, err2                                                *)
(* IsSimilarToCluster called on its own by concurrent callers:             *)
(*   calls      for each caller: the two structures it passes (positions   *)
(*              in clusters, the pointers), the thresholds, its position   *)
(*              in the function, the returned value, and whether another   *)
(*              call was running when this one started (observation only)  *)
(*   frames     the local variables of each activation                     *)
(***************************************************************************)
VARIABLES clusters, eneThreshold, disThreshold, pc, resultClusters, k,
          out, err, origin, prev, merged, nCompare, nReplaced,
          slotOf, members, mode, ene2, dis2, out2, err2, report,
          file, pos, lineCount, atoms, capAtoms, energy, parsed, headerAt,
          kybnmr, optConfig, disk, executed,
          calls, frames

args == << clusters, eneThreshold, disThreshold >>
scan == << resultClusters, k, origin, prev, merged, nCompare, nReplaced,
          slotOf, members >>
second == << mode, ene2, dis2, out2, err2 >>
reader == << file, pos, lineCount, atoms, capAtoms, energy, parsed,
            headerAt >>
pipeline == << kybnmr, optConfig, disk, executed >>
oracle == << calls, frames >>
vars == << args, pc, scan, out, err, second, report, reader, pipeline,
          oracle >>

\* no pipeline is running
PipelineIdle ==
  /\ kybnmr = [md |-> 0, pre |-> 0, post |-> 0]
  /\ optConfig = [PreThreshold |-> << >>, PostThreshold |-> << >>]
  /\ disk = {}
  /\ executed = << >>

\* the callers of IsSimilarToCluster (goroutines) and, for each call, the
\* local variables of its activation: the arrays of lines 160-165 and the
\* loop variables of lines 172-173
Procs == {1, 2}
IdleCall == [cluster1 |-> 0, cluster2 |-> 0, eneThreshold |-> 0,
             disThreshold |-> 0, pc |-> "idle", ret |-> "none",
             concurrent |-> FALSE]
EmptyFrame == [distMatrix1 |-> << >>, distMatrix2 |-> << >>,
               distArray1 |-> << >>, distArray2 |-> << >>,
               i |-> 0, maxDiff |-> 0]

\* no call of IsSimilarToCluster on its own
OracleIdle ==
  /\ calls = [p \in Procs |-> IdleCall]
  /\ frames = [p \in Procs |-> EmptyFrame]

\* no file is being read
ReaderIdle ==
  /\ file = << >>
  /\ pos = 1
  /\ lineCount = 0
  /\ atoms = << >>
  /\ capAtoms = 0
  /\ energy = 0
  /\ parsed = << >>
  /\ headerAt = << >>

Init ==
  /\ clusters \in Ensembles
  /\ eneThreshold \in EneThresholds
  /\ disThreshold \in DisThresholds
  /\ pc = "call"
  /\ resultClusters = << >>
  /\ k = 0
  /\ out = Nil
  /\ err = NoErr
  /\ origin = << >>
  /\ prev = << >>
  /\ merged = 0
  /\ nCompare = 0
  /\ nReplaced = 0
  /\ slotOf = << >>
  /\ members = << >>
  /\ mode = "none"
  /\ ene2 = 0
  /\ dis2 = 0
  /\ out2 = Nil
  /\ err2 = NoErr
  /\ report = << >>
  /\ ReaderIdle
  /\ PipelineIdle
  /\ OracleIdle

\* lines 92-94
RejectThreshold ==
  /\ pc = "call"
  /\ InvalidThreshold(eneThreshold, disThreshold)
  /\ pc' = "ret"
  /\ out' = Nil
  /\ err' = ErrThreshold
  /\ UNCHANGED << args, scan, second, report, reader >>
  /\ UNCHANGED << pipeline, oracle >>

\* lines 96-98
RejectEmpty ==
  /\ pc = "call"
  /\ ~InvalidThreshold(eneThreshold, disThreshold)
  /\ EmptyEnsemble(clusters)
  /\ pc' = "ret"
  /\ out' = Nil
  /\ err' = ErrEmpty
  /\ UNCHANGED << args, scan, second, report, reader >>
  /\ UNCHANGED << pipeline, oracle >>

\* variant: the result list is built in the array of the input
\* (resultClusters := clusters[:0])
ResultInInputArrayYes(cl) == TRUE

\* line 107: make(ClusterList, 0) gives resultClusters an array of its own;
\* the Cluster values appended or assigned to it are copies
ResultInInputArray(cl) == FALSE

\* the caller's ensemble once the result list holds reps: the writes to the
\* slots of the result list reach the caller's array only when it is shared
CallerEnsemble(cl, reps) ==
  IF ResultInInputArray(cl)
  THEN [i \in 1..Len(cl) |-> IF i <= Len(reps) THEN reps[i] ELSE cl[i]]
  ELSE cl

\* lines 107-110; clusters[0] of an empty slice is a run-time panic
Begin ==
  /\ pc = "call"
  /\ ~InvalidThreshold(eneThreshold, disThreshold)
  /\ ~EmptyEnsemble(clusters)
  /\ IF Len(clusters) = 0
     THEN /\ pc' = "ret"
          /\ out' = Nil
          /\ err' = ErrPanic
          /\ UNCHANGED << resultClusters, origin, members, k >>
     ELSE /\ pc' = "scan"
          /\ resultClusters' = << clusters[1] >>
          /\ origin' = << 1 >>
          /\ members' = << {1} >>
          /\ k' = 2
          /\ UNCHANGED << out, err >>
  /\ clusters' = CallerEnsemble(clusters, resultClusters')
  /\ UNCHANGED << eneThreshold, disThreshold, prev, merged, nCompare,
                  nReplaced, slotOf, second, report, reader >>
  /\ UNCHANGED << pipeline, oracle >>

\* lines 113-135, one iteration of the outer loop
ScanStep ==
  /\ pc = "scan"
  /\ k <= Len(clusters)
  /\ LET m == MergeCandidate(resultClusters, clusters[k],
                             eneThreshold, disThreshold)
     IN /\ nCompare' = nCompare + m.ncmp
        /\ prev' = resultClusters
        /\ merged' = m.match
        /\ IF m.panic
           THEN /\ pc' = "ret"
                /\ out' = Nil
                /\ err' = ErrPanic
                /\ UNCHANGED << resultClusters, origin, members, k,
                                nReplaced >>
           ELSE /\ resultClusters' = m.reps
                /\ origin' = IF m.match = 0 THEN Append(origin, k)
                             ELSE IF m.replaced
                                  THEN [origin EXCEPT ![m.match] = k]
                                  ELSE origin
                /\ members' = IF m.match = 0 THEN Append(members, {k})
                              ELSE [members EXCEPT
                                      ![m.match] = @ \cup {k}]
                /\ nReplaced' = IF m.replaced THEN nReplaced + 1 ELSE nReplaced
                /\ k' = k + 1
                /\ UNCHANGED << pc, out, err >>
  /\ clusters' = CallerEnsemble(clusters, resultClusters')
  /\ UNCHANGED << eneThreshold, disThreshold, slotOf, second, report,
                  reader >>
  /\ UNCHANGED << pipeline, oracle >>

\* lines 137-140: PrintClusterInFo sorts the list in place, then return
Finish ==
  /\ pc = "scan"
  /\ k > Len(clusters)
  /\ LET perm == SortPerm(resultClusters, Len(resultClusters))
     IN /\ resultClusters' = SortCluster(resultClusters)
        /\ origin' = Permute(origin, perm)
        /\ slotOf' = perm
        /\ members' = Permute(members, perm)
  /\ prev' = resultClusters
  /\ report' = PrintClusterInFo(resultClusters)
  /\ out' = resultClusters'
  /\ err' = NoErr
  /\ pc' = "ret"
  /\ clusters' = CallerEnsemble(clusters, resultClusters')
  /\ UNCHANGED << eneThreshold, disThreshold, k, merged, nCompare, nReplaced,
                  second, reader >>
  /\ UNCHANGED << pipeline, oracle >>

\* the caller runs DoubleCheck once more on the returned list
RunAgain ==
  /\ pc = "ret"
  /\ err = NoErr
  /\ mode = "none"
  /\ LET r == DoubleCheck(eneThreshold, disThreshold, out)
     IN out2' = r.list /\ err2' = r.err
  /\ mode' = "again"
  /\ ene2' = eneThreshold
  /\ dis2' = disThreshold
  /\ UNCHANGED << args, pc, scan, out, err, report, reader >>
  /\ UNCHANGED << pipeline, oracle >>

\* the caller runs DoubleCheck on the same ensemble with looser thresholds
RunLooser ==
  /\ pc = "ret"
  /\ err = NoErr
  /\ mode = "none"
  /\ \E e \in LooserEneThresholds, d \in DisThresholds :
       /\ eneThreshold <= e
       /\ disThreshold <= d
       /\ LET r == DoubleCheck(e, d, clusters)
          IN out2' = r.list /\ err2' = r.err
       /\ ene2' = e
       /\ dis2' = d
  /\ mode' = "looser"
  /\ UNCHANGED << args, pc, scan, out, err, report, reader >>
  /\ UNCHANGED << pipeline, oracle >>

Next ==
  \/ RejectThreshold
  \/ RejectEmpty
  \/ Begin
  \/ ScanStep
  \/ Finish
  \/ RunAgain
  \/ RunLooser

Spec == Init /\ [][Next]_vars

(***************************************************************************)
(* PrintClusterInFo called on a list of its own: the receiver is sorted in *)
(* place and the rows are printed.                                         *)
(***************************************************************************)
ReportPool == [Atoms : {GeomP}, Energy : 0..MaxReportEnergy]
ReportLists == UNION {[1..n -> ReportPool] : n \in 1..MaxReportLen}

InitReport ==
  /\ resultClusters \in ReportLists
  /\ pc = "print"
  /\ clusters = << >>
  /\ eneThreshold = 0
  /\ disThreshold = 0
  /\ k = 0
  /\ out = Nil
  /\ err = NoErr
  /\ origin = << >>
  /\ prev = << >>
  /\ merged = 0
  /\ nCompare = 0
  /\ nReplaced = 0
  /\ slotOf = << >>
  /\ members = << >>
  /\ mode = "none"
  /\ ene2 = 0
  /\ dis2 = 0
  /\ out2 = Nil
  /\ err2 = NoErr
  /\ report = << >>
  /\ ReaderIdle
  /\ PipelineIdle
  /\ OracleIdle

PrintReport ==
  /\ pc = "print"
  /\ resultClusters' = SortCluster(resultClusters)
  /\ report' = PrintClusterInFo(resultClusters)
  /\ prev' = resultClusters
  /\ pc' = "printed"
  /\ UNCHANGED << args, k, origin, merged, nCompare, nReplaced, slotOf,
                  members, out, err, second, reader >>
  /\ UNCHANGED << pipeline, oracle >>

NextReport == PrintReport

SpecReport == InitReport /\ [][NextReport]_vars

(***************************************************************************)
(* DoubleCheck on ensembles that hold structures of no atom or one atom.   *)
(***************************************************************************)
Geom0 == << >>
Geom1 == << Atom("C", 0, 0, 0) >>
FewPool == [Atoms : {Geom0, Geom1, GeomP}, Energy : {0}]
FewEnsembles == UNION {[1..n -> FewPool] : n \in 0..MaxFewLen}

InitFewAtoms ==
  /\ clusters \in FewEnsembles
  /\ eneThreshold \in EneThresholds
  /\ disThreshold \in DisThresholds
  /\ pc = "call"
  /\ resultClusters = << >>
  /\ k = 0
  /\ out = Nil
  /\ err = NoErr
  /\ origin = << >>
  /\ prev = << >>
  /\ merged = 0
  /\ nCompare = 0
  /\ nReplaced = 0
  /\ slotOf = << >>
  /\ members = << >>
  /\ mode = "none"
  /\ ene2 = 0
  /\ dis2 = 0
  /\ out2 = Nil
  /\ err2 = NoErr
  /\ report = << >>
  /\ ReaderIdle
  /\ PipelineIdle
  /\ OracleIdle

SpecFewAtoms == InitFewAtoms /\ [][Next]_vars

(***************************************************************************)
(* ParseXyzFile (config.go).  A file is a sequence of lines; a line is the *)
(* sequence of its whitespace-separated fields (strings.Fields), a field   *)
(* being the text of an integer, of a decimal number, or a word that is no *)
(* number.  Numbers are integer-valued; lines longer than the scanner's    *)
(* buffer are not in the model.                                            *)
(***************************************************************************)
IntField(n) == [kind |-> "int", num |-> n, text |-> ""]
FltField(v) == [kind |-> "float", num |-> v, text |-> ""]
WordField(w) == [kind |-> "word", num |-> 0, text |-> w]

FieldText(f) == IF f.kind = "word" THEN f.text ELSE ToString(f.num)

\* strconv.Atoi(strings.TrimSpace(line))
Atoi(line) ==
  IF Len(line) = 1 /\ line[1].kind = "int"
  THEN [ok |-> TRUE, val |-> line[1].num]
  ELSE [ok |-> FALSE, val |-> 0]

\* strconv.ParseFloat of one field
ParseFloat(f) ==
  IF f.kind \in {"int", "float"}
  THEN [ok |-> TRUE, val |-> f.num]
  ELSE [ok |-> FALSE, val |-> 0]

\* strconv.ParseFloat(strings.TrimSpace(line), 64)
ParseFloatLine(line) ==
  IF Len(line) = 1 THEN ParseFloat(line[1]) ELSE [ok |-> FALSE, val |-> 0]

\* cap(append(atoms, atom)): a full slice of capacity 0 grows to capacity 1
\* (one Atom of 40 bytes in the 48-byte size class), a larger one doubles
AppendCap(len, cap) ==
  IF len < cap THEN cap ELSE IF cap = 0 THEN 1 ELSE 2 * cap

Header0 == << IntField(0) >>
Header1 == << IntField(1) >>
Header2 == << IntField(2) >>
EnergyRow == << FltField(1) >>
CommentRow == << WordField("Energy") >>
AtomRow == << WordField("H"), FltField(1), FltField(0),
             FltField(0) >>
BadCoordRow == << WordField("H"), WordField("x"), FltField(0),
                 FltField(0) >>
Lines == {Header0, Header1, Header2, EnergyRow, CommentRow, AtomRow,
          BadCoordRow}
Files == UNION {[1..n -> Lines] : n \in 0..MaxLines}

InitParse ==
  /\ file \in Files
  /\ pos = 1
  /\ lineCount = 0
  /\ atoms = << >>
  /\ capAtoms = 0
  /\ energy = 0
  /\ parsed = << >>
  /\ headerAt = << >>
  /\ pc = "parse"
  /\ clusters = << >>
  /\ eneThreshold = 0
  /\ disThreshold = 0
  /\ resultClusters = << >>
  /\ k = 0
  /\ out = Nil
  /\ err = NoErr
  /\ origin = << >>
  /\ prev = << >>
  /\ merged = 0
  /\ nCompare = 0
  /\ nReplaced = 0
  /\ slotOf = << >>
  /\ members = << >>
  /\ mode = "none"
  /\ ene2 = 0
  /\ dis2 = 0
  /\ out2 = Nil
  /\ err2 = NoErr
  /\ report = << >>
  /\ PipelineIdle
  /\ OracleIdle

\* variant: the structures parsed before the bad line are returned with
\* the error
ParseFailsPartial(e) ==
  /\ pc' = "parsed"
  /\ out' = parsed
  /\ err' = e
  /\ UNCHANGED reader

\* return nil, err
ParseFails(e) ==
  /\ pc' = "parsed"
  /\ out' = Nil
  /\ err' = e
  /\ UNCHANGED reader

\* lines 486-497: the first line of a block
ReadHeader ==
  /\ pc = "parse"
  /\ pos <= Len(file)
  /\ lineCount = 0
  /\ LET numAtoms == Atoi(file[pos])
     IN IF ~numAtoms.ok
        THEN ParseFails(ErrHeader)
        ELSE /\ atoms' = << >>
             /\ capAtoms' = numAtoms.val
             /\ energy' = 0
             /\ lineCount' = 1
             /\ pos' = pos + 1
             /\ UNCHANGED << file, parsed, headerAt, pc, out, err >>
  /\ UNCHANGED << args, scan, second, report >>
  /\ UNCHANGED << pipeline, oracle >>

\* variant: a line that is no number fails the call, as the earlier
\* ParseXyzFile of calculate.go does (lines 420-427)
ReadEnergyStrict ==
  /\ pc = "parse"
  /\ pos <= Len(file)
  /\ lineCount = 1
  /\ LET e == ParseFloatLine(file[pos])
     IN IF ~e.ok
        THEN ParseFails("invalid energy row")
        ELSE /\ energy' = e.val
             /\ lineCount' = 2
             /\ pos' = pos + 1
             /\ UNCHANGED << file, atoms, capAtoms, parsed, headerAt, pc,
                             out, err >>
  /\ UNCHANGED << args, scan, second, report >>
  /\ UNCHANGED << pipeline, oracle >>

\* lines 499-507: the second line of a block
ReadEnergy ==
  /\ pc = "parse"
  /\ pos <= Len(file)
  /\ lineCount = 1
  /\ LET e == ParseFloatLine(file[pos])
     IN energy' = IF ~e.ok THEN 0 ELSE e.val
  /\ lineCount' = 2
  /\ pos' = pos + 1
  /\ UNCHANGED << file, atoms, capAtoms, parsed, headerAt, pc, out, err >>
  /\ UNCHANGED << args, scan, second, report >>
  /\ UNCHANGED << pipeline, oracle >>

\* lines 509-553: a coordinate row
ReadAtom ==
  /\ pc = "parse"
  /\ pos <= Len(file)
  /\ lineCount >= 2
  /\ LET fields == file[pos]
     IN IF Len(fields) # 4
        THEN ParseFails(ErrRow)
        ELSE IF \E i \in 2..4 : ~ParseFloat(fields[i]).ok
        THEN ParseFails(ErrSyntax)
        ELSE LET atom == Atom(FieldText(fields[1]), ParseFloat(fields[2]).val,
                              ParseFloat(fields[3]).val,
                              ParseFloat(fields[4]).val)
                 appended == Append(atoms, atom)
                 newCap == AppendCap(Len(atoms), capAtoms)
             IN /\ IF Len(appended) = newCap
                   THEN /\ parsed' = Append(parsed, [Atoms |-> appended,
                                                      Energy |-> energy])
                        /\ headerAt' = Append(headerAt,
                                              pos - Len(appended) - 1)
                        /\ atoms' = << >>
                        /\ capAtoms' = 0
                        /\ energy' = 0
                        /\ lineCount' = 0
                   ELSE /\ atoms' = appended
                        /\ capAtoms' = newCap
                        /\ lineCount' = lineCount + 1
                        /\ UNCHANGED << parsed, headerAt, energy >>
                /\ pos' = pos + 1
                /\ UNCHANGED << file, pc, out, err >>
  /\ UNCHANGED << args, scan, second, report >>
  /\ UNCHANGED << pipeline, oracle >>

\* variant: the end of the file inside a block is an error
EndOfFileStrict ==
  /\ pc = "parse"
  /\ pos > Len(file)
  /\ pc' = "parsed"
  /\ out' = IF lineCount = 0 THEN parsed ELSE Nil
  /\ err' = IF lineCount = 0 THEN NoErr ELSE "unexpected end of file"
  /\ UNCHANGED << args, scan, second, report, reader >>
  /\ UNCHANGED << pipeline, oracle >>

\* lines 556-560: the scanner has no more lines
EndOfFile ==
  /\ pc = "parse"
  /\ pos > Len(file)
  /\ pc' = "parsed"
  /\ out' = parsed
  /\ err' = NoErr
  /\ UNCHANGED << args, scan, second, report, reader >>
  /\ UNCHANGED << pipeline, oracle >>

NextParse == ReadHeader \/ ReadEnergy \/ ReadAtom \/ EndOfFile

SpecParse == InitParse /\ [][NextParse]_vars

(***************************************************************************)
(* WriteToXyzFile (config.go), followed by ParseXyzFile on the file it     *)
(* wrote.  Here an Energy and a coordinate are integer counts of a tenth   *)
(* of the last decimal the writer prints (1e-9 Hartree, 1e-11 Angstrom),   *)
(* so that "%.8f" and "%14.10f" round: the number of a written field is    *)
(* the value rounded to a whole last decimal, ties to even.                *)
(***************************************************************************)
RoundDecimal(x) ==
  LET q == x \div 10
      r == x % 10
  IN IF r > 5 \/ (r = 5 /\ q % 2 = 1) THEN (q + 1) * 10 ELSE q * 10

\* line 578: "  %d\n"
FormatHeader(n) == << IntField(n) >>

\* variant: the energy is written with six decimals ("%.6f")
FormatEnergy6(e) == << FltField(((e + 500) \div 1000) * 1000) >>

\* line 584: "\t\t%.8f\n"
FormatEnergy(e) == << FltField(RoundDecimal(e)) >>

\* line 592: "%2s \t\t%14.10f \t\t%14.10f \t\t%14.10f\n"; an empty symbol
\* leaves three fields on the line
FormatAtom(atom) ==
  (IF atom.Symbol = "" THEN << >> ELSE << WordField(atom.Symbol) >>)
    \o << FltField(RoundDecimal(atom.X)), FltField(RoundDecimal(atom.Y)),
          FltField(RoundDecimal(atom.Z)) >>

\* lines 576-598: the lines written for one structure
FormatCluster(cluster) ==
  << FormatHeader(Len(cluster.Atoms)), FormatEnergy(cluster.Energy) >>
    \o [j \in 1..Len(cluster.Atoms) |-> FormatAtom(cluster.Atoms[j])]

RECURSIVE FormatClusters(_)
FormatClusters(cl) ==
  IF cl = << >> THEN << >>
  ELSE FormatCluster(Head(cl)) \o FormatClusters(Tail(cl))

WriteAtomH == Atom("H", -15, 4, 25)
WriteAtomCl == Atom("Cl", 5, 0, -4)
WriteAtomBlank == Atom("", 0, 0, 0)
WriteGeoms == {<< >>, << WriteAtomH >>, << WriteAtomH, WriteAtomCl >>,
               << WriteAtomBlank >>}
WritePool == [Atoms : WriteGeoms, Energy : {-15, 4}]
WriteLists == UNION {[1..n -> WritePool] : n \in 0..MaxWriteLen}

InitRoundTrip ==
  /\ clusters \in WriteLists
  /\ pc = "write"
  /\ ReaderIdle
  /\ eneThreshold = 0
  /\ disThreshold = 0
  /\ resultClusters = << >>
  /\ k = 0
  /\ out = Nil
  /\ err = NoErr
  /\ origin = << >>
  /\ prev = << >>
  /\ merged = 0
  /\ nCompare = 0
  /\ nReplaced = 0
  /\ slotOf = << >>
  /\ members = << >>
  /\ mode = "none"
  /\ ene2 = 0
  /\ dis2 = 0
  /\ out2 = Nil
  /\ err2 = NoErr
  /\ report = << >>
  /\ PipelineIdle
  /\ OracleIdle

\* lines 567-601: the file is opened with O_CREATE|O_APPEND and the lines of
\* every structure are written after what it holds; the caller then parses
\* the file
WriteToXyzFile ==
  /\ pc = "write"
  /\ file' = file \o FormatClusters(clusters)
  /\ pc' = "parse"
  /\ UNCHANGED << pos, lineCount, atoms, capAtoms, energy, parsed, headerAt >>
  /\ UNCHANGED << args, scan, out, err, second, report >>
  /\ UNCHANGED << pipeline, oracle >>

NextRoundTrip == WriteToXyzFile \/ NextParse

SpecRoundTrip == InitRoundTrip /\ [][NextRoundTrip]_vars

(***************************************************************************)
(* KYBNMR.Run (package run), from the configuration on: the stages         *)
(* molecular dynamics, pre-optimization, post-optimization, DFT            *)
(* optimization and DFT single point.  The external programs are steps     *)
(* with the outcomes they can have; executed is the list of the calls the  *)
(* run has made, disk the structure files in the run directory.  The       *)
(* options opt and sp choose the DFT program only and are left out.        *)
(* A configuration string is the sequence of its comma-separated pieces.   *)
(***************************************************************************)
ErrStage == "exit status 1"
ErrOpen == "error parsing xyz file"

Event(op, stage, e) == [op |-> op, stage |-> stage, err |-> e]

\* utils.SplitStringByComma: the error of strconv.ParseFloat is dropped, a
\* piece that is no number becomes 0
SplitStringByComma(str) == [i \in 1..Len(str) |-> ParseFloat(str[i]).val]

\* "0.25,0.1", a negative energy threshold, a second piece that is no
\* number, one value only, and the empty string of a missing key
ThresholdStrings ==
  { << FltField(2500), FltField(1) >>,
    << FltField(-2500), FltField(1) >>,
    << FltField(2500), WordField("x") >>,
    << FltField(2500) >>,
    << WordField("") >> }

\* what ParseXyzFile gives for the file crest has left: an error, or a list
CrestLists ==
  { << >>,
    << [Atoms |-> GeomP, Energy |-> 0] >>,
    << [Atoms |-> GeomP, Energy |-> 0], [Atoms |-> GeomQ, Energy |-> 0] >> }
CrestOutcomes ==
  {[list |-> Nil, err |-> ErrHeader]}
    \cup {[list |-> l, err |-> NoErr] : l \in CrestLists}

\* runPreOptimization and runFurtherOptimization have one body: crest, then
\* ParseXyzFile, SplitStringByComma, DoubleCheck and WriteToXyzFile; every
\* error is printed and nil is returned.  threshold[1] of a one-element
\* slice is a run-time panic.
\* the steps after DoubleCheck has returned r: the list is written only
\* when the error is nil
CheckAndWrite(started, stage, r) ==
  [events |-> started
                \o << Event("DoubleCheck", stage, r.err) >>
                \o IF r.err = NoErr
                   THEN << Event("WriteToXyzFile", stage, NoErr) >>
                   ELSE << >>,
   wrote |-> r.err = NoErr,
   panic |-> FALSE]

Optimization(xtb, stage, parsedFile, thresholdString) ==
  IF parsedFile.err # NoErr
  THEN [events |-> << Event(xtb, stage, NoErr) >>, wrote |-> FALSE,
        panic |-> FALSE]
  ELSE IF Len(SplitStringByComma(thresholdString)) < 2
  THEN [events |-> << Event(xtb, stage, NoErr) >>, wrote |-> FALSE,
        panic |-> TRUE]
  ELSE CheckAndWrite(<< Event(xtb, stage, NoErr) >>, stage,
                     DoubleCheck(SplitStringByComma(thresholdString)[1],
                                 SplitStringByComma(thresholdString)[2],
                                 parsedFile.list))

InitRun ==
  /\ kybnmr \in [md : {0, 1}, pre : {0, 1}, post : {0, 1}]
  /\ optConfig \in [PreThreshold : ThresholdStrings,
                     PostThreshold : ThresholdStrings]
  /\ disk \in SUBSET {"pre_clusters.xyz", "post_clusters.xyz"}
  /\ executed = << >>
  /\ pc = "md"
  /\ ReaderIdle
  /\ OracleIdle
  /\ clusters = << >>
  /\ eneThreshold = 0
  /\ disThreshold = 0
  /\ resultClusters = << >>
  /\ k = 0
  /\ out = Nil
  /\ err = NoErr
  /\ origin = << >>
  /\ prev = << >>
  /\ merged = 0
  /\ nCompare = 0
  /\ nReplaced = 0
  /\ slotOf = << >>
  /\ members = << >>
  /\ mode = "none"
  /\ ene2 = 0
  /\ dis2 = 0
  /\ out2 = Nil
  /\ err2 = NoErr
  /\ report = << >>

RunFrame ==
  UNCHANGED << args, scan, out, second, report, reader, kybnmr, optConfig,
               oracle >>

\* part_000 lines 265-272
RunMolecularDynamics ==
  /\ pc = "md"
  /\ IF kybnmr.md = 1
     THEN \E e \in {NoErr, ErrStage} :
            /\ executed' = Append(executed, Event("XtbExecuteMD", "md", e))
            /\ err' = e
            /\ pc' = IF e = NoErr THEN "pre" ELSE "done"
     ELSE /\ pc' = "pre"
          /\ UNCHANGED << executed, err >>
  /\ UNCHANGED disk
  /\ RunFrame

\* part_000 lines 277-284 and 92-112
RunPreOptimization ==
  /\ pc = "pre"
  /\ IF kybnmr.pre = 1
     THEN \E parsedFile \in CrestOutcomes :
            \E r \in {Optimization("XtbExecutePreOpt", "pre", parsedFile,
                                   optConfig.PreThreshold)} :
               /\ executed' = executed \o r.events
               /\ disk' = IF r.wrote THEN disk \cup {"pre_clusters.xyz"}
                          ELSE disk
               /\ pc' = IF r.panic THEN "done" ELSE "post"
               /\ err' = IF r.panic THEN ErrPanic ELSE err
     ELSE /\ pc' = "post"
          /\ UNCHANGED << executed, disk, err >>
  /\ RunFrame

\* part_000 lines 289-296 and 114-135
RunFurtherOptimization ==
  /\ pc = "post"
  /\ IF kybnmr.post = 1
     THEN \E parsedFile \in CrestOutcomes :
            \E r \in {Optimization("XtbExecutePostOpt", "post", parsedFile,
                                   optConfig.PostThreshold)} :
               /\ executed' = executed \o r.events
               /\ disk' = IF r.wrote THEN disk \cup {"post_clusters.xyz"}
                          ELSE disk
               /\ pc' = IF r.panic THEN "done" ELSE "dft"
               /\ err' = IF r.panic THEN ErrPanic ELSE err
     ELSE /\ pc' = "dft"
          /\ UNCHANGED << executed, disk, err >>
  /\ RunFrame

\* part_000 lines 298-316: post_clusters.xyz is parsed, whoever wrote it;
\* RunDFTOptimization returns nil on every path
RunDFTOptimization ==
  /\ pc = "dft"
  /\ \E e \in IF "post_clusters.xyz" \in disk THEN {NoErr, ErrOpen}
               ELSE {ErrOpen} :
        IF e # NoErr
        THEN /\ pc' = "done"
             /\ err' = e
             /\ UNCHANGED executed
        ELSE /\ executed' = Append(executed,
                                   Event("RunDFTOptimization", "dft", NoErr))
             /\ pc' = "sp"
             /\ UNCHANGED err
  /\ UNCHANGED disk
  /\ RunFrame

\* part_000 lines 324-340: the error of BatchMTFToGenerateFile is
\* overwritten, RunDFTSinglePoint returns nil on every path
RunDFTSinglePoint ==
  /\ pc = "sp"
  /\ \E e \in {NoErr, ErrStage} :
        executed' = executed
                      \o << Event("BatchMTFToGenerateFile", "sp", e),
                            Event("RunDFTSinglePoint", "sp", NoErr) >>
  /\ err' = NoErr
  /\ pc' = "done"
  /\ UNCHANGED disk
  /\ RunFrame

NextRun ==
  \/ RunMolecularDynamics
  \/ RunPreOptimization
  \/ RunFurtherOptimization
  \/ RunDFTOptimization
  \/ RunDFTSinglePoint

SpecRun == InitRun /\ [][NextRun]_vars

(***************************************************************************)
(* IsSimilarToCluster statement by statement, called by two goroutines on  *)
(* structures of one ensemble.  The structures are reached through the     *)
(* pointers cluster1 and cluster2 (positions in clusters); every array the *)
(* function works on is made by the call itself.                           *)
(***************************************************************************)
\* structures of three atoms: one geometry at every energy, another one at
\* the lowest energy
OraclePool ==
  [Atoms : {GeomQ}, Energy : Energies] \cup [Atoms : {GeomP}, Energy : {0}]
OracleEnsembles == {<< a, b >> : a \in OraclePool, b \in OraclePool}
\* thresholds e, d >= 0
OracleEneThresholds == {0, HartreeToKcal}
OracleDisThresholds == {0, 6}

InitOracle ==
  /\ clusters \in OracleEnsembles
  /\ pc = "oracle"
  /\ OracleIdle
  /\ eneThreshold = 0
  /\ disThreshold = 0
  /\ resultClusters = << >>
  /\ k = 0
  /\ out = Nil
  /\ err = NoErr
  /\ origin = << >>
  /\ prev = << >>
  /\ merged = 0
  /\ nCompare = 0
  /\ nReplaced = 0
  /\ slotOf = << >>
  /\ members = << >>
  /\ mode = "none"
  /\ ene2 = 0
  /\ dis2 = 0
  /\ out2 = Nil
  /\ err2 = NoErr
  /\ report = << >>
  /\ ReaderIdle
  /\ PipelineIdle

\* variant: the arrays live in one buffer shared by every call
FrameShared(p) == 1

\* lines 192, 196, 218: make() gives every call arrays of its own, and
\* eneDiff, maxDiff, i are locals of the activation
Frame(p) == p

OracleFrame ==
  UNCHANGED << args, pc, scan, out, err, second, report, reader, pipeline >>

\* a goroutine calls IsSimilarToCluster(&clusters[a], &clusters[b], e, d)
OracleCall(p) ==
  /\ calls[p].pc = "idle"
  /\ \E a \in 1..Len(clusters), b \in 1..Len(clusters),
        e \in OracleEneThresholds, d \in OracleDisThresholds :
       calls' = [calls EXCEPT ![p] =
                   [cluster1 |-> a, cluster2 |-> b, eneThreshold |-> e,
                    disThreshold |-> d, pc |-> "energy", ret |-> "none",
                    concurrent |-> \E q \in Procs \ {p} :
                                      calls[q].pc \notin {"idle", "done"}]]
  /\ UNCHANGED frames
  /\ OracleFrame

\* lines 152-157
OracleEnergy(p) ==
  /\ calls[p].pc = "energy"
  /\ IF EnergyRejects(clusters[calls[p].cluster1], clusters[calls[p].cluster2],
                      calls[p].eneThreshold)
     THEN calls' = [calls EXCEPT ![p].pc = "done", ![p].ret = FALSE]
     ELSE calls' = [calls EXCEPT ![p].pc = "matrix"]
  /\ UNCHANGED frames
  /\ OracleFrame

\* lines 160-161
OracleMatrix(p) ==
  /\ calls[p].pc = "matrix"
  /\ frames' = [frames EXCEPT
       ![Frame(p)].distMatrix1 =
          calculateDistanceMatrix(clusters[calls[p].cluster1]),
       ![Frame(p)].distMatrix2 =
          calculateDistanceMatrix(clusters[calls[p].cluster2])]
  /\ calls' = [calls EXCEPT ![p].pc = "convert"]
  /\ OracleFrame

\* lines 164-165
OracleConvert(p) ==
  /\ calls[p].pc = "convert"
  /\ frames' = [frames EXCEPT
       ![Frame(p)].distArray1 =
          convertToDistanceArray(frames[Frame(p)].distMatrix1),
       ![Frame(p)].distArray2 =
          convertToDistanceArray(frames[Frame(p)].distMatrix2)]
  /\ calls' = [calls EXCEPT ![p].pc = "sort"]
  /\ OracleFrame

\* lines 168-173: the two arrays are sorted in place, maxDiff := 0.0, i := 0
OracleSort(p) ==
  /\ calls[p].pc = "sort"
  /\ frames' = [frames EXCEPT
       ![Frame(p)].distArray1 = SortFloat64s(frames[Frame(p)].distArray1),
       ![Frame(p)].distArray2 = SortFloat64s(frames[Frame(p)].distArray2),
       ![Frame(p)].maxDiff = 0,
       ![Frame(p)].i = 1]
  /\ calls' = [calls EXCEPT ![p].pc = "loop"]
  /\ OracleFrame

\* lines 173-178, one iteration (or the exit of the loop)
OracleLoop(p) ==
  /\ calls[p].pc = "loop"
  /\ LET f == frames[Frame(p)]
     IN IF f.i > Len(f.distArray1)
        THEN /\ calls' = [calls EXCEPT ![p].pc = "compare"]
             /\ UNCHANGED frames
        ELSE LET diff == Abs(f.distArray1[f.i] - f.distArray2[f.i])
             IN /\ frames' = [frames EXCEPT
                     ![Frame(p)].maxDiff = IF diff > f.maxDiff THEN diff
                                           ELSE f.maxDiff,
                     ![Frame(p)].i = f.i + 1]
                /\ UNCHANGED calls
  /\ OracleFrame

\* lines 181-186
OracleCompare(p) ==
  /\ calls[p].pc = "compare"
  /\ calls' = [calls EXCEPT
       ![p].pc = "done",
       ![p].ret = ~(frames[Frame(p)].maxDiff > calls[p].disThreshold)]
  /\ UNCHANGED frames
  /\ OracleFrame

NextOracle ==
  \E p \in Procs :
     \/ OracleCall(p)
     \/ OracleEnergy(p)
     \/ OracleMatrix(p)
     \/ OracleConvert(p)
     \/ OracleSort(p)
     \/ OracleLoop(p)
     \/ OracleCompare(p)

SpecOracle == InitOracle /\ [][NextOracle]_vars

TypeOK ==
  /\ pc \in {"call", "scan", "ret", "print", "printed", "parse", "parsed",
            "write", "md", "pre", "post", "dft", "sp", "done", "oracle"}
  /\ pc \in {"call", "scan", "ret"}
       => /\ Len(origin) = Len(resultClusters)
          /\ \A i \in 1..Len(origin) : resultClusters[i] = clusters[origin[i]]

(***************************************************************************)
(* Properties.                                                             *)
(***************************************************************************)
Returned == pc = "ret" /\ err = NoErr

\* every structure of the ensemble has the same number (>= 2) of atoms
SameAtomCount(cl) ==
  \A i, j \in 1..Len(cl) :
     /\ Len(cl[i].Atoms) = Len(cl[j].Atoms)
     /\ Len(cl[i].Atoms) >= 2

\* no two distinct positions of the list hold similar structures
NoSimilarPair(cl, e, d) ==
  \A i, j \in 1..Len(cl) :
     i # j => ~IsSimilarToCluster(cl[i], cl[j], e, d)

\* C1 (as stated): for every non-empty ensemble of structures of one atom
\* count and thresholds e, d >= 0, no two distinct representatives of the
\* list DoubleCheck returns are similar to each other.
C1_NoDuplicates ==
  (Returned /\ SameAtomCount(clusters))
     => NoSimilarPair(out, eneThreshold, disThreshold)

\* C1 (amended): the same, for the calls in which no representative was
\* overwritten by a lower-energy candidate during the scan.
C1_NoDuplicatesWithoutReplacement ==
  (Returned /\ SameAtomCount(clusters) /\ nReplaced = 0)
     => NoSimilarPair(out, eneThreshold, disThreshold)

\* a call that merged a candidate without overwriting and returned two
\* or more representatives
C1_Witness ==
  /\ Returned
  /\ SameAtomCount(clusters)
  /\ nReplaced = 0
  /\ Len(out) >= 2
  /\ Len(out) < Len(clusters)

\* C2 (as stated): DoubleCheck(e, d, .) on the list DoubleCheck(e, d, X)
\* returned gives the same list again, same structures in the same order.
C2_Idempotent ==
  (mode = "again" /\ SameAtomCount(clusters))
     => (err2 = NoErr /\ out2 = out)

\* C2 (amended): the same, when no two distinct structures of the list the
\* first call returned are similar to each other.
C2_IdempotentWithoutDuplicates ==
  (mode = "again" /\ SameAtomCount(clusters)
     /\ NoSimilarPair(out, eneThreshold, disThreshold))
     => (err2 = NoErr /\ out2 = out)

\* a second call on a list of several representatives, one of which had
\* replaced another structure, that changed nothing
C2_Witness ==
  /\ mode = "again"
  /\ SameAtomCount(clusters)
  /\ NoSimilarPair(out, eneThreshold, disThreshold)
  /\ Len(out) >= 2
  /\ nReplaced > 0
  /\ out2 = out

\* C3 (as stated): for thresholds e1 <= e2 and d1 <= d2, DoubleCheck with
\* (e1, d1) returns at least as many representatives as with (e2, d2).
C3_Monotone ==
  (mode = "looser" /\ err = NoErr /\ err2 = NoErr)
     => Len(out) >= Len(out2)

\* C3 (amended): the same, for ensembles of at most three structures.
C3_MonotoneUpToThree ==
  (mode = "looser" /\ err = NoErr /\ err2 = NoErr /\ Len(clusters) <= 3)
     => Len(out) >= Len(out2)

\* strictly looser thresholds that returned strictly fewer representatives
C3_Witness ==
  /\ mode = "looser"
  /\ err = NoErr
  /\ err2 = NoErr
  /\ Len(clusters) = 3
  /\ (ene2 > eneThreshold \/ dis2 > disThreshold)
  /\ Len(out) > Len(out2)

\* C4: the list a successful DoubleCheck returns is in ascending order of
\* Energy.
C4_SortedByEnergy ==
  Returned =>
     \A i \in 1..(Len(out) - 1) : out[i].Energy <= out[i + 1].Energy

\* a return whose final sort changed the order of the representatives
C4_Witness ==
  /\ Returned
  /\ Len(out) >= 2
  /\ out # prev
  /\ out[1].Energy < out[Len(out)].Energy

\* C5 (as stated): two representatives of equal Energy appear in the
\* output in the order in which the two structures appear in the input.
C5_TiesInInputOrder ==
  Returned =>
     \A i, j \in 1..Len(out) :
        (i < j /\ out[i].Energy = out[j].Energy) => origin[i] < origin[j]

\* C5 (amended): two representatives of equal Energy appear in the output
\* in the order of the slots they held in the representative list at the
\* end of the scan.
C5_TiesInSlotOrder ==
  Returned =>
     /\ Len(slotOf) = Len(out)
     /\ \A i \in 1..Len(out) : out[i] = prev[slotOf[i]]
     /\ \A i, j \in 1..Len(out) :
           (i < j /\ out[i].Energy = out[j].Energy) => slotOf[i] < slotOf[j]

\* a return with two representatives of equal Energy, below a third one
\* that the sort moved behind them
C5_Witness ==
  /\ Returned
  /\ out # prev
  /\ \E i, j \in 1..Len(out) :
        i < j /\ out[i].Energy = out[j].Energy /\ slotOf[i] < slotOf[j]

\* two structures of the ensemble differ in their number of atoms
MixedAtomCounts(cl) ==
  \E i, j \in 1..Len(cl) : Len(cl[i].Atoms) # Len(cl[j].Atoms)

\* C6 (as stated): a DoubleCheck call with non-negative thresholds on an
\* ensemble holding two structures of different atom counts ends with an
\* error and returns no representative set.
C6_MismatchIsAnError ==
  (pc = "ret" /\ eneThreshold >= 0 /\ disThreshold >= 0
     /\ MixedAtomCounts(clusters))
     => (err # NoErr /\ out = Nil)

\* C7: with a negative energy or distance threshold DoubleCheck returns
\* the threshold error and a nil list for every ensemble, the empty one
\* included, never enters the scan and makes no similarity comparison.
C7_NegativeThreshold ==
  (eneThreshold < 0 \/ disThreshold < 0)
     => /\ pc # "scan"
        /\ nCompare = 0
        /\ resultClusters = << >>
        /\ pc = "ret" => (err = ErrThreshold /\ out = Nil)

\* a call on several structures rejected for its distance threshold alone
C7_Witness ==
  /\ pc = "ret"
  /\ eneThreshold >= 0
  /\ disThreshold < 0
  /\ Len(clusters) >= 2
  /\ err = ErrThreshold

\* C8: with both thresholds non-negative, DoubleCheck on an ensemble of no
\* structure returns the empty-ensemble error and a nil list, without
\* reading the first element of the ensemble or of the representative list.
C8_EmptyInput ==
  (eneThreshold >= 0 /\ disThreshold >= 0 /\ Len(clusters) = 0)
     => /\ pc # "scan"
        /\ resultClusters = << >>
        /\ pc = "ret" => (err = ErrEmpty /\ out = Nil)

\* the call on the empty ensemble has returned
C8_Witness ==
  /\ pc = "ret"
  /\ eneThreshold >= 0
  /\ disThreshold >= 0
  /\ Len(clusters) = 0
  /\ err = ErrEmpty

\* the slots of reps whose structure is similar to the candidate
SimilarSlots(reps, cluster, e, d) ==
  {i \in 1..Len(reps) :
     /\ ~SimilarPanics(cluster, reps[i], e, d)
     /\ IsSimilarToCluster(cluster, reps[i], e, d)}

MinOf(S) == CHOOSE x \in S : \A y \in S : x <= y

\* an iteration of the outer loop that ran to its end
Iteration == pc = "scan" /\ k <= Len(clusters) /\ pc' = "scan"

\* C9: a candidate similar to more than one current representative is
\* merged into the similar representative of smallest position, and the
\* scan stops there: exactly that many comparisons are made, and no other
\* slot changes.
C9_FirstMatch ==
  [][ LET sim == SimilarSlots(resultClusters, clusters[k],
                             eneThreshold, disThreshold)
      IN (Iteration /\ Cardinality(sim) > 1)
           => LET m == MinOf(sim)
              IN /\ merged' = m
                 /\ nCompare' = nCompare + m
                 /\ Len(resultClusters') = Len(resultClusters)
                 /\ resultClusters'[m] \in {resultClusters[m], clusters[k]}
                 /\ \A i \in 1..Len(resultClusters) :
                       i # m => /\ resultClusters'[i] = resultClusters[i]
                                /\ origin'[i] = origin[i] ]_vars

\* the last candidate was similar to two or more representatives, the
\* first of which was not in the first slot
C9_Witness ==
  /\ pc = "scan"
  /\ k > 2
  /\ LET sim == SimilarSlots(prev, clusters[k - 1], eneThreshold, disThreshold)
     IN /\ Cardinality(sim) > 1
        /\ merged = MinOf(sim)
        /\ merged > 1

\* C10: when candidate c matches representative r, the slot of r is
\* overwritten by c if and only if c.Energy < r.Energy; otherwise c is
\* discarded and the slot keeps r.  Either way the slot stays where it is
\* and the list keeps its length.
C10_ReplaceIffLower ==
  [][ LET sim == SimilarSlots(resultClusters, clusters[k],
                             eneThreshold, disThreshold)
      IN (Iteration /\ sim # {})
           => LET m == MinOf(sim)
                  c == clusters[k]
                  r == resultClusters[m]
              IN /\ Len(resultClusters') = Len(resultClusters)
                 /\ c.Energy < r.Energy
                       => (resultClusters'[m] = c /\ origin'[m] = k)
                 /\ c.Energy >= r.Energy
                       => (resultClusters'[m] = r /\ origin'[m] = origin[m]) ]_vars

\* the last candidate had a lower Energy than the representative it
\* matched and overwrote its slot; an earlier candidate had been handled
C10_Witness ==
  /\ pc = "scan"
  /\ k > 3
  /\ merged > 0
  /\ origin[merged] = k - 1
  /\ prev[merged].Energy > clusters[k - 1].Energy
  /\ Len(resultClusters) = Len(prev)

\* C11: a candidate similar to none of the current representatives is
\* appended at the end of the representative list: the list grows by
\* exactly one and every slot it had keeps its structure and position.
C11_NewClusterAppended ==
  [][ (Iteration /\ SimilarSlots(resultClusters, clusters[k],
                                  eneThreshold, disThreshold) = {})
        => LET n == Len(resultClusters)
           IN /\ Len(resultClusters') = n + 1
              /\ resultClusters'[n + 1] = clusters[k]
              /\ origin'[n + 1] = k
              /\ \A i \in 1..n : /\ resultClusters'[i] = resultClusters[i]
                                  /\ origin'[i] = origin[i] ]_vars

\* the last candidate matched none of two or more representatives and
\* became the last one
C11_Witness ==
  /\ pc = "scan"
  /\ k > 2
  /\ merged = 0
  /\ Len(prev) >= 2
  /\ Len(resultClusters) = Len(prev) + 1
  /\ resultClusters[Len(resultClusters)] = clusters[k - 1]

\* every representative is at most as high in Energy as each input
\* structure merged into its slot
LocalMinimum ==
  /\ Len(members) = Len(resultClusters)
  /\ \A i \in 1..Len(resultClusters) :
        \A p \in members[i] :
           resultClusters[i].Energy <= clusters[p].Energy

\* C12: at every point of the scan and at the end, the Energy of each
\* representative is at most the Energy of every input structure merged
\* into its slot (discarded on a match with it, or displaced from it), and
\* the Energy a slot holds never increases during the scan.
C12_LocalMinimum ==
  [][ /\ LocalMinimum'
      /\ Iteration =>
            \A i \in 1..Len(resultClusters) :
               resultClusters'[i].Energy <= resultClusters[i].Energy ]_vars

\* a slot into which three structures were merged, the first of which
\* was displaced by a later one of lower Energy
C12_Witness ==
  /\ pc = "scan"
  /\ \E i \in 1..Len(resultClusters) :
        /\ Cardinality(members[i]) >= 3
        /\ \E p \in members[i] :
              /\ p < origin[i]
              /\ clusters[p].Energy > resultClusters[i].Energy
        /\ \E p \in members[i] : p > origin[i]

\* C13: in every state of the scan each representative is, atoms and
\* Energy together, the input structure at one position of the ensemble,
\* distinct slots hold distinct input positions, and no merge appends
\* atoms: in an ensemble of one atom count every representative has that
\* atom count.
C13_WholeStructure ==
  /\ Len(origin) = Len(resultClusters)
  /\ \A i \in 1..Len(resultClusters) :
        /\ origin[i] \in 1..Len(clusters)
        /\ resultClusters[i] = clusters[origin[i]]
        /\ \A j \in 1..Len(resultClusters) : i # j => origin[i] # origin[j]
        /\ SameAtomCount(clusters)
              => Len(resultClusters[i].Atoms) = Len(clusters[1].Atoms)

\* during a scan: one slot was overwritten, one candidate was discarded
\* on a match, and there are two or more representatives
C13_Witness ==
  /\ pc = "scan"
  /\ SameAtomCount(clusters)
  /\ nReplaced > 0
  /\ Len(resultClusters) >= 2
  /\ \E i \in 1..Len(resultClusters) : \E p \in members[i] : p > origin[i]

C15_GeometryCriterion ==
  [][ Iteration =>
        \A i \in 1..Len(resultClusters) :
           LET a == clusters[k]
               b == resultClusters[i]
               fa == DistArray(a)
               fb == DistArray(b)
           IN (/\ merged' = 0 \/ merged' >= i
               /\ Len(a.Atoms) = Len(b.Atoms)
               /\ Abs(a.Energy - b.Energy) * HartreeToKcal <= eneThreshold)
                => (merged' = i
                      <=> \A p \in 1..Len(fa) :
                             Abs(fa[p] - fb[p]) <= disThreshold) ]_vars

\* the candidate was merged into the first of two representatives that
\* the geometry test keeps apart, at a largest difference of its distance
\* array equal to the distance threshold
C15_Witness ==
  /\ pc = "scan"
  /\ k > 2
  /\ merged = 1
  /\ Len(prev) >= 2
  /\ prev[1].Energy = prev[2].Energy
  /\ Len(prev[1].Atoms) = Len(clusters[k - 1].Atoms)
  /\ MaxDiffLoop(DistArray(clusters[k - 1]), DistArray(prev[1]), 1, 0)
        = disThreshold

\* the distance of the atoms i and j of a structure
PairDistance(cluster, i, j) ==
  LET a == cluster.Atoms
  IN Sqrt((a[i].X - a[j].X) * (a[i].X - a[j].X)
          + (a[i].Y - a[j].Y) * (a[i].Y - a[j].Y)
          + (a[i].Z - a[j].Z) * (a[i].Z - a[j].Z))

AtomPairs(cluster) ==
  {p \in (1..Len(cluster.Atoms)) \X (1..Len(cluster.Atoms)) : p[1] < p[2]}

\* C16: the distance array of every structure that the scan takes from the
\* ensemble has n * (n - 1) / 2 entries for n atoms, is in ascending order, and holds
\* each distance as many times as there are unordered atom pairs (i < j)
\* at that distance: it depends on the set of pairs only, not on the order
\* in which they are enumerated.
C16_FingerprintShape ==
  \A c \in {k - 1} \cap 1..Len(clusters) :
     LET n == Len(clusters[c].Atoms)
         f == DistArray(clusters[c])
         pairs == AtomPairs(clusters[c])
     IN /\ 2 * Len(f) = n * (n - 1)
        /\ \A p \in 1..(Len(f) - 1) : f[p] <= f[p + 1]
        /\ \A q \in pairs :
              Cardinality({p \in 1..Len(f) :
                             f[p] = PairDistance(clusters[c], q[1], q[2])})
                = Cardinality({r \in pairs :
                                 PairDistance(clusters[c], r[1], r[2])
                                   = PairDistance(clusters[c], q[1], q[2])})

\* a structure of four atoms whose pair enumeration is not in ascending
\* order was compared with a representative
C16_Witness ==
  /\ pc = "scan"
  /\ k > 2
  /\ nCompare > 0
  /\ Len(clusters[k - 1].Atoms) = 4
  /\ convertToDistanceArray(calculateDistanceMatrix(clusters[k - 1]))
          # DistArray(clusters[k - 1])

\* C17 (as stated): every row of the report gives, to the two decimals
\* printed, the relative energy (E - E_min) * 627.5094 kcal/mol, E_min
\* being the smallest Energy of the list: the constant of the similarity
\* energy test.
C17_ReportUsesHartreeToKcal ==
  pc = "printed"
    => \A i \in 1..Len(report) :
          report[i].DeltaEnergy
            = Format2((resultClusters[i].Energy - resultClusters[1].Energy)
                        * HartreeToKcal)

\* C18: no step of a DoubleCheck call, successful or failing, changes the
\* caller's ensemble: its length, the order of its structures and the
\* atoms and Energy of each stay what they were, the in-place sort of the
\* representatives included.
C18_InputReadOnly == [][clusters' = clusters]_vars

\* a call returned after a slot was overwritten by a candidate and the
\* final sort moved a representative
C18_Witness ==
  /\ pc = "ret"
  /\ err = NoErr
  /\ nReplaced > 0
  /\ \E i \in 1..Len(slotOf) : slotOf[i] # i

\* C19 (as stated): a DoubleCheck call on an ensemble that holds a
\* structure of 0 or 1 atoms ends with an error, not with a representative
\* set.
C19_FewAtomsRejected ==
  (pc = "ret" /\ \E i \in 1..Len(clusters) : Len(clusters[i].Atoms) < 2)
     => err # NoErr

\* C20: when the second line of a block is not a valid number, reading it
\* is not an error: the energy of the block is 0.0 and the parser goes on
\* to the next line with every structure parsed so far kept; every
\* structure ParseXyzFile has parsed has the Energy written on the second
\* line of its block, or 0.0 when that line is not a number.
C20_LenientEnergyLine ==
  [][ /\ (pc = "parse" /\ pos <= Len(file) /\ lineCount = 1
            /\ ~ParseFloatLine(file[pos]).ok)
         => /\ pc' = "parse"
            /\ err' = NoErr
            /\ energy' = 0
            /\ lineCount' = 2
            /\ pos' = pos + 1
            /\ atoms' = atoms
            /\ parsed' = parsed
      /\ \A i \in 1..Len(parsed') :
            LET e == ParseFloatLine(file[headerAt'[i] + 1])
            IN parsed'[i].Energy = IF e.ok THEN e.val ELSE 0 ]_vars

\* a file was parsed without error into two structures, the first from a
\* block whose second line is a word, the second with the energy of its
\* own second line
C20_Witness ==
  /\ pc = "parsed"
  /\ err = NoErr
  /\ Len(out) = 2
  /\ ~ParseFloatLine(file[2]).ok
  /\ out[1].Energy = 0
  /\ Len(out[1].Atoms) >= 1
  /\ out[2].Energy = 1

\* C21: when the line read as a block header is not one integer, or the
\* line read as a coordinate row has not exactly 4 fields or has a
\* coordinate that is no number, ParseXyzFile stops there with an error
\* and a nil ensemble; a call that ends with an error never returns the
\* structures parsed before the bad line.
C21_MalformedFile ==
  [][ /\ (/\ pc = "parse"
          /\ pos <= Len(file)
          /\ \/ /\ lineCount = 0
                /\ ~(Len(file[pos]) = 1 /\ file[pos][1].kind = "int")
             \/ /\ lineCount >= 2
                /\ \/ Len(file[pos]) # 4
                   \/ \E i \in 2..4 : file[pos][i].kind = "word")
         => (pc' = "parsed" /\ err' # NoErr /\ out' = Nil)
      /\ (pc' = "parsed" /\ err' # NoErr) => out' = Nil ]_vars

\* a call ended with an error after it had parsed a structure
C21_Witness ==
  /\ pc = "parsed"
  /\ err # NoErr
  /\ Len(parsed) >= 1
  /\ out = Nil

\* every structure of the list has an atom, and every symbol is not empty
Writable(cl) ==
  \A i \in 1..Len(cl) :
     /\ Len(cl[i].Atoms) >= 1
     /\ \A j \in 1..Len(cl[i].Atoms) : cl[i].Atoms[j].Symbol # ""

\* within half a unit of the last written decimal
SameAtPrecision(x, y) == Abs(x - y) <= 5

\* C22: when a list of structures, each with an atom or more and no empty
\* symbol, is written by WriteToXyzFile to a new file, ParseXyzFile on that
\* file ends without error, with a list of the same length and order whose
\* structures have the atom counts and symbols of the originals, and
\* coordinates and Energy equal to the originals at the written precision.
C22_RoundTrip ==
  (pc = "parsed" /\ Writable(clusters))
    => /\ err = NoErr
       /\ Len(out) = Len(clusters)
       /\ \A i \in 1..Len(out) :
             /\ SameAtPrecision(out[i].Energy, clusters[i].Energy)
             /\ Len(out[i].Atoms) = Len(clusters[i].Atoms)
             /\ \A j \in 1..Len(out[i].Atoms) :
                   LET a == out[i].Atoms[j]
                       b == clusters[i].Atoms[j]
                   IN /\ a.Symbol = b.Symbol
                      /\ SameAtPrecision(a.X, b.X)
                      /\ SameAtPrecision(a.Y, b.Y)
                      /\ SameAtPrecision(a.Z, b.Z)

\* a list of two structures, one with two atoms, was written and parsed
\* back, with a coordinate that the writer rounded
C22_Witness ==
  /\ pc = "parsed"
  /\ Writable(clusters)
  /\ Len(clusters) = 2
  /\ Len(out) = 2
  /\ Len(out[1].Atoms) = 2
  /\ out[1].Atoms[1].Y # clusters[1].Atoms[1].Y

\* the positions of the list of calls at which DoubleCheck returned an
\* error in the given stage
FailedChecks(stage) ==
  {i \in 1..Len(executed) :
     /\ executed[i].op = "DoubleCheck"
     /\ executed[i].stage = stage
     /\ executed[i].err # NoErr}

\* C23 (as stated): once DoubleCheck has returned an error in the
\* pre-optimization stage, the run writes no pre_clusters.xyz and calls
\* none of the later stages: post-optimization, DFT optimization, DFT
\* single point.
C23_DoubleCheckErrorAborts ==
  \A i \in FailedChecks("pre") :
     \A j \in (i + 1)..Len(executed) :
        executed[j].op \notin {"WriteToXyzFile", "XtbExecutePostOpt",
                               "RunDFTOptimization", "RunDFTSinglePoint"}

\* the configuration string that the thresholds of a stage are read from
ThresholdStringOf(stage) ==
  IF stage = "pre" THEN optConfig.PreThreshold ELSE optConfig.PostThreshold

\* C24 (as stated): every DoubleCheck call of the run is made with two
\* thresholds that were both present in the configuration string of its
\* stage and both parsed as numbers.
C24_ThresholdsValidated ==
  \A i \in 1..Len(executed) :
     executed[i].op = "DoubleCheck"
       => LET str == ThresholdStringOf(executed[i].stage)
          IN /\ Len(str) >= 2
             /\ str[1].kind # "word"
             /\ str[2].kind # "word"

\* C25 (as stated): the stages run in the order molecular dynamics,
\* pre-optimization, post-optimization, DFT optimization, DFT single
\* point, and the structures that an optimization stage produced have
\* passed DoubleCheck before the next stage is called: post-optimization
\* after a pre-optimization, single point after the DFT optimization.
StageRank(stage) ==
  CASE stage = "md" -> 1
    [] stage = "pre" -> 2
    [] stage = "post" -> 3
    [] stage = "dft" -> 4
    [] stage = "sp" -> 5

CheckedBefore(stage, i) ==
  \E j \in 1..(i - 1) :
     /\ executed[j].op = "DoubleCheck"
     /\ executed[j].stage = stage
     /\ executed[j].err = NoErr

C25_DoubleCheckAtEveryStep ==
  /\ \A i, j \in 1..Len(executed) :
        i < j => StageRank(executed[i].stage) <= StageRank(executed[j].stage)
  /\ \A i \in 1..Len(executed) :
        /\ (executed[i].op = "XtbExecutePostOpt" /\ kybnmr.pre = 1)
              => CheckedBefore("pre", i)
        /\ executed[i].op = "RunDFTSinglePoint" => CheckedBefore("dft", i)

\* the value IsSimilarToCluster returns for the arguments of a call when
\* nothing else runs
SequentialResult(c) ==
  IsSimilarToCluster(clusters[c.cluster1], clusters[c.cluster2],
                     c.eneThreshold, c.disThreshold)

\* C26: IsSimilarToCluster is pure.  No step of a call changes a structure
\* it was given (atom order, coordinates, Energy), and every call, however
\* its steps are interleaved with those of another call, returns the value
\* it returns when run alone.
C26_OraclePure ==
  [][/\ clusters' = clusters
     /\ \A p \in Procs :
          calls'[p].pc = "done" => calls'[p].ret = SequentialResult(calls'[p])]_vars

\* two calls on different arguments have overlapped and returned different
\* values
C26_Witness ==
  /\ pc = "oracle"
  /\ \A p \in Procs : calls[p].pc = "done"
  /\ \E p \in Procs : calls[p].concurrent
  /\ << calls[1].cluster1, calls[1].cluster2 >>
       # << calls[2].cluster1, calls[2].cluster2 >>
  /\ calls[1].ret = TRUE
  /\ calls[2].ret = FALSE
  /\ frames[1].distArray1 # << >>
  /\ frames[2].distArray1 # << >>

\* C28: the oracle is symmetric and reflexive.  Two calls with the same
\* thresholds e, d >= 0 and the two structures in opposite order return the
\* same value, and a call that compares a structure with itself returns
\* true.
C28_SymmetricReflexive ==
  /\ \A p, q \in Procs :
        (/\ calls[p].pc = "done"
         /\ calls[q].pc = "done"
         /\ calls[p].cluster1 = calls[q].cluster2
         /\ calls[p].cluster2 = calls[q].cluster1
         /\ calls[p].eneThreshold = calls[q].eneThreshold
         /\ calls[p].disThreshold = calls[q].disThreshold)
           => calls[p].ret = calls[q].ret
  /\ \A p \in Procs :
        (/\ calls[p].pc = "done"
         /\ clusters[calls[p].cluster1] = clusters[calls[p].cluster2])
           => calls[p].ret = TRUE

\* IsSimilarToCluster(a, b, e, d) and IsSimilarToCluster(b, a, e, d) have
\* both returned true for two structures of different Energy
C28_Witness ==
  /\ pc = "oracle"
  /\ calls[1].pc = "done"
  /\ calls[2].pc = "done"
  /\ calls[1].cluster1 = calls[2].cluster2
  /\ calls[1].cluster2 = calls[2].cluster1
  /\ calls[1].cluster1 # calls[1].cluster2
  /\ calls[1].eneThreshold = calls[2].eneThreshold
  /\ calls[1].disThreshold = calls[2].disThreshold
  /\ clusters[1].Energy # clusters[2].Energy
  /\ calls[1].ret = TRUE
  /\ calls[2].ret = TRUE

\* the Energy values of the structures of a list
EnergiesOf(cl) == {cl[i].Energy : i \in 1..Len(cl)}

\* C27: the global energy minimum survives.  For a non-empty ensemble of
\* structures of one atom count and thresholds e, d >= 0, the smallest
\* Energy among the representatives DoubleCheck returns is the smallest
\* Energy of the ensemble, and the first element of the returned list has
\* it.
C27_GlobalMinimumSurvives ==
  (Returned /\ SameAtomCount(clusters))
     => /\ MinOf(EnergiesOf(out)) = MinOf(EnergiesOf(clusters))
        /\ out[1].Energy = MinOf(EnergiesOf(clusters))

\* a return where the structure of lowest Energy came after a similar one
\* of higher Energy and took its slot, and the final sort moved it to the
\* front
C27_Witness ==
  /\ Returned
  /\ SameAtomCount(clusters)
  /\ clusters[1].Energy > MinOf(EnergiesOf(clusters))
  /\ nReplaced > 0
  /\ Len(out) >= 2
  /\ Len(out) < Len(clusters)
  /\ slotOf[1] # 1

\* the atom count declared by the header line of the block that the i-th
\* parsed structure was read from
Declared(i) == Atoi(file[headerAt[i]]).val

\* C29 (as stated): every structure ParseXyzFile has parsed holds exactly
\* as many atoms as the integer on the header line of its block, for every
\* header value accepted (0 included), and the blocks follow each other
\* without a gap: the header of the first block is line 1, and the header
\* of each later block is the line after the declared number of coordinate
\* rows of the block before it.
C29_DeclaredAtomCount ==
  \A i \in 1..Len(parsed) :
     /\ Len(parsed[i].Atoms) = Declared(i)
     /\ headerAt[i] = IF i = 1 THEN 1
                      ELSE headerAt[i - 1] + 2 + Declared(i - 1)

\* the call has returned at the end of a file whose last block has
\* received fewer coordinate rows than its header declares (the header is
\* lineCount lines back)
Truncated ==
  /\ pc = "parsed"
  /\ pos > Len(file)
  /\ lineCount >= 1
  /\ Len(atoms) < Atoi(file[pos - lineCount]).val

\* C30: when the file ends inside its last block, ParseXyzFile returns
\* without error the structures of all complete blocks before it, in
\* order, and omits the partial block: every returned structure holds the
\* rows of a block that ends before the partial block begins, none has
\* fewer atoms than its header declares, and no error is reported.
C30_TruncatedLastBlock ==
  Truncated
    => /\ err = NoErr
       /\ out = parsed
       /\ Len(out) = Len(headerAt)
       /\ \A i \in 1..Len(out) :
             /\ Len(out[i].Atoms) >= Declared(i)
             /\ headerAt[i] + 1 + Len(out[i].Atoms) < pos - lineCount
             /\ \A j \in 1..Len(out[i].Atoms) :
                   LET row == file[headerAt[i] + 1 + j]
                   IN out[i].Atoms[j] =
                        Atom(FieldText(row[1]), row[2].num, row[3].num,
                             row[4].num)

\* a file with a complete block followed by a block that declares two
\* atoms and has one row: one structure is returned, without error
C30_Witness ==
  /\ Truncated
  /\ err = NoErr
  /\ Len(out) = 1
  /\ Len(atoms) = 1
  /\ Atoi(file[pos - lineCount]).val = 2

=============================================================================
